---- MODULE Spec2Model ----
(***************************************************************************)
(* Model of src/sample_without_cat90.py: create_focused_sample_no_cat90,   *)
(* a linear batch procedure over a COCO-style dataset.  An image record is *)
(* represented by its id (its file_name is determined by the id), an       *)
(* annotation by the pair (image_id, category_id), a category record by    *)
(* its id.  A file on disk is a sequence: <<>> when it does not exist,     *)
(* <<content>> once written.                                               *)
(***************************************************************************)
EXTENDS Integers, Sequences, FiniteSets, TLC

\* ---- bounds of the model ----
NumImages == 2          \* records in data['images'], ids 1..NumImages
MaxCat == 2             \* specific category ids 1..MaxCat (besides 90)
MaxAnns == 3            \* longest data['annotations'] list
MaxN == 2               \* top_n_categories ranges over 0..MaxN
MaxCap == 2             \* images_per_category ranges over 0..MaxCap
MaxSeed == 2            \* seed ranges over 0..MaxSeed
RngMod == 8             \* size of the abstract generator's state space

\* ---- program constant ----
EXCLUDED == 90

\* an annotation may reference an image id that is not in data['images']
AnnImageIds == 1..(NumImages + 1)
CategoryIds == (1..MaxCat) \cup {EXCLUDED}
Annotation == [image_id : AnnImageIds, category_id : CategoryIds]
RngStates == 0..(RngMod - 1)

RECURSIVE SeqsUpTo(_, _)
SeqsUpTo(S, n) ==
    IF n = 0 THEN {<<>>}
    ELSE LET shorter == SeqsUpTo(S, n - 1)
         IN  shorter \cup {Append(s, x) : s \in {t \in shorter : Len(t) = n - 1}, x \in S}

Range(s) == {s[i] : i \in DOMAIN s}
Min(a, b) == IF a <= b THEN a ELSE b

VARIABLES
    data,                 \* the loaded dataset (lines 39-40)
    top_n_categories, images_per_category, seed,   \* parameters (lines 16-18)
    rng,                  \* state of the module-level random generator
    pc,                   \* position in the procedure
    category_counts,      \* Counter, as a sequence of [key, n] in insertion order
    top_categories,
    image_categories,     \* defaultdict(set): image id -> set of top categories
    eligible_images,
    category_image_map,   \* defaultdict(list): top category -> list of images
    cat_idx,              \* position of the loop of line 85 in top_categories
    sampled,              \* the draw of line 88 for the category just handled
    sampled_image_ids,
    sampled_images,
    sampled_annotations,
    sampled_data,         \* <<>> before line 129, <<record>> after
    annotations_json,     \* <output_dir>/annotations.json
    images_output,        \* file names present in <output_dir>/images
    copy_idx, copied, missing,
    category_info_file,   \* <output_dir>/category_info.txt
    run, first_selected   \* which invocation this is; the first one's selection

vars == <<data, top_n_categories, images_per_category, seed, rng, pc,
          category_counts, top_categories, image_categories, eligible_images,
          category_image_map, cat_idx, sampled, sampled_image_ids,
          sampled_images, sampled_annotations, sampled_data, annotations_json,
          images_output, copy_idx, copied, missing, category_info_file,
          run, first_selected>>

\* ---- pure helpers, as the code computes them ----

\* random.seed(seed): the generator's state becomes a function of the seed
\* alone; whatever state it had before (entropy-seeded at import, or left by
\* earlier draws) is discarded.
RandomSeed_keepsState(s, old) == old
RandomSeed(s, old) == s % RngMod

\* One step of the generator (an abstract full-period congruential generator
\* standing for the Mersenne Twister), and random._randbelow(n).
NextRng(s) == (5 * s + 3) % RngMod
RandBelow(n, s) == (NextRng(s) \div 2) % n

\* collections.Counter(keys): counts in first-occurrence order.
RECURSIVE Counter(_)
Counter(keys) ==
    IF keys = <<>> THEN <<>>
    ELSE LET c == Counter(SubSeq(keys, 1, Len(keys) - 1))
             k == keys[Len(keys)]
         IN  IF \E i \in DOMAIN c : c[i].key = k
             THEN [i \in DOMAIN c |->
                      IF c[i].key = k THEN [key |-> k, n |-> c[i].n + 1] ELSE c[i]]
             ELSE Append(c, [key |-> k, n |-> 1])

RemoveAt(s, i) == SubSeq(s, 1, i - 1) \o SubSeq(s, i + 1, Len(s))

\* Counter.most_common(n) = heapq.nlargest(n, items, key=count), which is
\* sorted(items, key=count, reverse=True)[:n]: stable, ties in insertion order.
MostCommon_unsorted(c, n) == SubSeq(c, 1, Min(n, Len(c)))
RECURSIVE MostCommon(_, _)
MostCommon(c, n) ==
    IF n <= 0 \/ c = <<>> THEN <<>>
    ELSE LET best == CHOOSE i \in DOMAIN c :
                        /\ \A j \in DOMAIN c : c[j].n <= c[i].n
                        /\ \A j \in 1..(i - 1) : c[j].n < c[i].n
         IN  <<c[best]>> \o MostCommon(RemoveAt(c, best), n - 1)

\* Lines 46-49: tally of the annotations' categories, category 90 left out.
CategoryCounts(anns) ==
    LET kept == SelectSeq(anns, LAMBDA a : a.category_id # EXCLUDED)
    IN  Counter([i \in DOMAIN kept |-> kept[i].category_id])

\* Line 56.
TopCategories(counts, n) ==
    LET mc == MostCommon(counts, n) IN [i \in DOMAIN mc |-> mc[i].key]

\* Lines 64-67: only images with an annotation of a top category get a key.
ImageCategories(anns, top) ==
    LET hit == {i \in DOMAIN anns : anns[i].category_id \in Range(top)}
    IN  [img \in {anns[i].image_id : i \in hit} |->
            {anns[i].category_id : i \in {j \in hit : anns[j].image_id = img}}]

\* Lines 70-73.
EligibleImages(imgs, imgcats) ==
    SelectSeq(imgs, LAMBDA img : img \in DOMAIN imgcats /\ Cardinality(imgcats[img]) > 0)

\* Lines 78-81, read at line 86 for the top categories (a defaultdict: a
\* category without eligible images maps to the empty list).
CategoryImageMap(eligible, imgcats, top) ==
    [c \in Range(top) |-> SelectSeq(eligible, LAMBDA img : c \in imgcats[img])]

\* Line 87.
SampleSize_offByOne(cap, available) == Min(cap, IF available > 0 THEN available - 1 ELSE 0)
SampleSize(cap, available) == Min(cap, available)

\* random.sample(population, k) for a population of at most 21 elements:
\*   pool = list(population)
\*   for i in range(k): j = randbelow(n-i); result[i] = pool[j]; pool[j] = pool[n-i-1]
\* Returns the draw and the generator's state after it.
RECURSIVE SampleLoop(_, _, _, _, _)
SampleLoop(pool, i, k, s, result) ==
    IF i >= k THEN [result |-> result, rng |-> s]
    ELSE LET n == Len(pool)
             j == RandBelow(n - i, s) + 1
         IN  SampleLoop([pool EXCEPT ![j] = pool[n - i]], i + 1, k, NextRng(s),
                        Append(result, pool[j]))

RECURSIVE SampleLoop_withReplacement(_, _, _, _, _)
SampleLoop_withReplacement(pool, i, k, s, result) ==
    IF i >= k THEN [result |-> result, rng |-> s]
    ELSE LET n == Len(pool)
             j == RandBelow(n, s) + 1
         IN  SampleLoop_withReplacement(pool, i + 1, k, NextRng(s),
                                        Append(result, pool[j]))

RandomSample_withReplacement(population, k, s) ==
    SampleLoop_withReplacement(population, 0, k, s, <<>>)
RandomSample(population, k, s) == SampleLoop(population, 0, k, s, <<>>)

\* Line 92.
SampledImages(imgs, ids) == SelectSeq(imgs, LAMBDA img : img \in ids)

\* Lines 99-102.  The code does not read top_categories here; the parameter
\* is carried so that the filter can be compared with one that does.
SampledAnnotations_keeps90(anns, ids, top) ==
    SelectSeq(anns, LAMBDA a : a.image_id \in ids)
SampledAnnotations_anyImage(anns, ids, top) ==
    SelectSeq(anns, LAMBDA a : a.category_id # EXCLUDED)
SampledAnnotations_topOnly(anns, ids, top) ==
    SelectSeq(anns, LAMBDA a : a.image_id \in ids /\ a.category_id \in Range(top))
SampledAnnotations(anns, ids, top) ==
    SelectSeq(anns, LAMBDA a : a.image_id \in ids /\ a.category_id # EXCLUDED)

\* Lines 129-135; dict.get substitutes {} / [] for an absent key.
NewDataset_dropsExcluded(d, imgs, anns) ==
    [images |-> imgs, annotations |-> anns,
     categories |-> SelectSeq(d.categories, LAMBDA c : c # EXCLUDED),
     info |-> IF d.info = "absent" THEN "{}" ELSE d.info,
     licenses |-> IF d.licenses = "absent" THEN "[]" ELSE d.licenses]
NewDataset(d, imgs, anns) ==
    [images |-> imgs, annotations |-> anns,
     categories |-> d.categories,
     info |-> IF d.info = "absent" THEN "{}" ELSE d.info,
     licenses |-> IF d.licenses = "absent" THEN "[]" ELSE d.licenses]

\* Lines 160-166: one iteration of the copy loop for image img.
CopyOne_dropsMissing(img, exists, out, ncopied, nmissing) ==
    IF exists
    THEN [out |-> out \cup {img}, copied |-> ncopied + 1, missing |-> nmissing]
    ELSE [out |-> out, copied |-> ncopied, missing |-> nmissing]
CopyOne(img, exists, out, ncopied, nmissing) ==
    IF exists
    THEN [out |-> out \cup {img}, copied |-> ncopied + 1, missing |-> nmissing]
    ELSE [out |-> out, copied |-> ncopied, missing |-> nmissing + 1]

\* Lines 105, 110-111, 122-125, 183-191: the text report.
CategoryInfo(top, imgs, anns, imgcats, all_anns, ids) ==
    [lines |-> [i \in DOMAIN top |->
                  [category |-> top[i],
                   count |-> Len(SelectSeq(anns, LAMBDA a : a.category_id = top[i])),
                   images_with_cat |->
                       Len(SelectSeq(imgs, LAMBDA img :
                              img \in DOMAIN imgcats /\ top[i] \in imgcats[img]))]],
     total_images |-> Len(imgs),
     total_annotations |-> Len(anns),
     removed |-> Len(SelectSeq(all_anns, LAMBDA a :
                        a.image_id \in ids /\ a.category_id = EXCLUDED))]

\* data['categories'] of the input file: one record per category id.
CategoryList == [i \in 1..(MaxCat + 1) |-> IF i <= MaxCat THEN i ELSE EXCLUDED]

\* ---- the procedure ----

Init ==
    /\ data \in [images : {[i \in 1..NumImages |-> i]},
                 annotations : SeqsUpTo(Annotation, MaxAnns),
                 categories : {CategoryList},
                 info : {"absent", "info"},
                 licenses : {"absent", "licenses"}]
    /\ top_n_categories \in 0..MaxN
    /\ images_per_category \in 0..MaxCap
    /\ seed \in 0..MaxSeed
    /\ rng \in RngStates
    /\ pc = "start"
    /\ category_counts = <<>>
    /\ top_categories = <<>>
    /\ image_categories = <<>>
    /\ eligible_images = <<>>
    /\ category_image_map = <<>>
    /\ cat_idx = 0
    /\ sampled = <<>>
    /\ sampled_image_ids = {}
    /\ sampled_images = <<>>
    /\ sampled_annotations = <<>>
    /\ sampled_data = <<>>
    /\ annotations_json = <<>>
    /\ images_output = {}
    /\ copy_idx = 0
    /\ copied = 0
    /\ missing = 0
    /\ category_info_file = <<>>
    /\ run = 1
    /\ first_selected = {}

\* Lines 31-43: seed the generator, load the dataset.
SeedAndLoad ==
    /\ pc = "start"
    /\ rng' = RandomSeed(seed, rng)
    /\ pc' = "rank"
    /\ UNCHANGED <<data, top_n_categories, images_per_category, seed,
                   category_counts, top_categories, image_categories,
                   eligible_images, category_image_map, cat_idx, sampled,
                   sampled_image_ids, sampled_images, sampled_annotations,
                   sampled_data, annotations_json, images_output, copy_idx,
                   copied, missing, category_info_file, run, first_selected>>

\* Lines 45-61: count and rank the categories.
RankCategories ==
    /\ pc = "rank"
    /\ category_counts' = CategoryCounts(data.annotations)
    /\ top_categories' = TopCategories(category_counts', top_n_categories)
    /\ pc' = "group"
    /\ UNCHANGED <<data, top_n_categories, images_per_category, seed, rng,
                   image_categories, eligible_images, category_image_map,
                   cat_idx, sampled, sampled_image_ids, sampled_images,
                   sampled_annotations, sampled_data, annotations_json,
                   images_output, copy_idx, copied, missing,
                   category_info_file, run, first_selected>>

\* Lines 63-84: group the images by top category.
GroupImages ==
    /\ pc = "group"
    /\ image_categories' = ImageCategories(data.annotations, top_categories)
    /\ eligible_images' = EligibleImages(data.images, image_categories')
    /\ category_image_map' =
           CategoryImageMap(eligible_images', image_categories', top_categories)
    /\ sampled_image_ids' = {}
    /\ cat_idx' = 0
    /\ pc' = "sample"
    /\ UNCHANGED <<data, top_n_categories, images_per_category, seed, rng,
                   category_counts, top_categories, sampled, sampled_images,
                   sampled_annotations, sampled_data, annotations_json,
                   images_output, copy_idx, copied, missing,
                   category_info_file, run, first_selected>>

\* Lines 85-90: one iteration of the loop over top_categories.
SampleCategory ==
    /\ pc = "sample"
    /\ cat_idx < Len(top_categories)
    /\ LET cat_id == top_categories[cat_idx + 1]
           available_images == category_image_map[cat_id]
           sample_size == SampleSize(images_per_category, Len(available_images))
           draw == RandomSample(available_images, sample_size, rng)
       IN  /\ sampled' = draw.result
           /\ rng' = draw.rng
           /\ sampled_image_ids' = sampled_image_ids \cup Range(draw.result)
    /\ cat_idx' = cat_idx + 1
    /\ UNCHANGED <<data, top_n_categories, images_per_category, seed, pc,
                   category_counts, top_categories, image_categories,
                   eligible_images, category_image_map, sampled_images,
                   sampled_annotations, sampled_data, annotations_json,
                   images_output, copy_idx, copied, missing,
                   category_info_file, run, first_selected>>

\* Lines 92-135: the loop is over; derive the reduced dataset.
FilterDataset ==
    /\ pc = "sample"
    /\ cat_idx = Len(top_categories)
    /\ sampled_images' = SampledImages(data.images, sampled_image_ids)
    /\ sampled_annotations' =
           SampledAnnotations(data.annotations, sampled_image_ids, top_categories)
    /\ sampled_data' = <<NewDataset(data, sampled_images', sampled_annotations')>>
    /\ pc' = "save"
    /\ UNCHANGED <<data, top_n_categories, images_per_category, seed, rng,
                   category_counts, top_categories, image_categories,
                   eligible_images, category_image_map, cat_idx, sampled,
                   sampled_image_ids, annotations_json, images_output,
                   copy_idx, copied, missing, category_info_file, run,
                   first_selected>>

\* Lines 137-154: create the directories (existing ones are kept as they
\* are), write annotations.json, reset the counters of the copy loop.
SaveJson ==
    /\ pc = "save"
    /\ annotations_json' = sampled_data
    /\ copy_idx' = 0
    /\ copied' = 0
    /\ missing' = 0
    /\ pc' = "copy"
    /\ UNCHANGED <<data, top_n_categories, images_per_category, seed, rng,
                   category_counts, top_categories, image_categories,
                   eligible_images, category_image_map, cat_idx, sampled,
                   sampled_image_ids, sampled_images, sampled_annotations,
                   sampled_data, images_output, category_info_file, run,
                   first_selected>>

\* Lines 156-166: one iteration of the copy loop; whether the source file
\* exists is the environment's choice.
CopyImage ==
    /\ pc = "copy"
    /\ copy_idx < Len(sampled_images)
    /\ \E exists \in BOOLEAN :
          LET r == CopyOne(sampled_images[copy_idx + 1], exists,
                           images_output, copied, missing)
          IN  /\ images_output' = r.out
              /\ copied' = r.copied
              /\ missing' = r.missing
    /\ copy_idx' = copy_idx + 1
    /\ UNCHANGED <<data, top_n_categories, images_per_category, seed, rng, pc,
                   category_counts, top_categories, image_categories,
                   eligible_images, category_image_map, cat_idx, sampled,
                   sampled_image_ids, sampled_images, sampled_annotations,
                   sampled_data, annotations_json, category_info_file, run,
                   first_selected>>

\* Lines 168-175: the summary.  Line 173 divides by len(sampled_images):
\* with no image selected it raises ZeroDivisionError and the process dies.
PrintSummary ==
    /\ pc = "copy"
    /\ copy_idx = Len(sampled_images)
    /\ pc' = IF Len(sampled_images) = 0 THEN "crashed" ELSE "report"
    /\ UNCHANGED <<data, top_n_categories, images_per_category, seed, rng,
                   category_counts, top_categories, image_categories,
                   eligible_images, category_image_map, cat_idx, sampled,
                   sampled_image_ids, sampled_images, sampled_annotations,
                   sampled_data, annotations_json, images_output, copy_idx,
                   copied, missing, category_info_file, run, first_selected>>

\* Lines 177-196: write category_info.txt and return.
SaveCategoryInfo ==
    /\ pc = "report"
    /\ category_info_file' =
           <<CategoryInfo(top_categories, sampled_images, sampled_annotations,
                          image_categories, data.annotations, sampled_image_ids)>>
    /\ pc' = "done"
    /\ UNCHANGED <<data, top_n_categories, images_per_category, seed, rng,
                   category_counts, top_categories, image_categories,
                   eligible_images, category_image_map, cat_idx, sampled,
                   sampled_image_ids, sampled_images, sampled_annotations,
                   sampled_data, annotations_json, images_output, copy_idx,
                   copied, missing, run, first_selected>>

Next ==
    \/ SeedAndLoad
    \/ RankCategories
    \/ GroupImages
    \/ SampleCategory
    \/ FilterDataset
    \/ SaveJson
    \/ CopyImage
    \/ PrintSummary
    \/ SaveCategoryInfo

Spec == Init /\ [][Next]_vars

\* A second invocation with the same arguments in the same process: the
\* locals start afresh, the generator is in whatever state the first
\* invocation left it, the output files of the first invocation remain.
Rerun ==
    /\ pc \in {"done", "crashed"}
    /\ run = 1
    /\ run' = 2
    /\ first_selected' = sampled_image_ids
    /\ pc' = "start"
    /\ category_counts' = <<>>
    /\ top_categories' = <<>>
    /\ image_categories' = <<>>
    /\ eligible_images' = <<>>
    /\ category_image_map' = <<>>
    /\ cat_idx' = 0
    /\ sampled' = <<>>
    /\ sampled_image_ids' = {}
    /\ sampled_images' = <<>>
    /\ sampled_annotations' = <<>>
    /\ sampled_data' = <<>>
    /\ copy_idx' = 0
    /\ copied' = 0
    /\ missing' = 0
    /\ UNCHANGED <<data, top_n_categories, images_per_category, seed, rng,
                   annotations_json, images_output, category_info_file>>

NextRerun ==
    \/ SeedAndLoad
    \/ RankCategories
    \/ GroupImages
    \/ SampleCategory
    \/ FilterDataset
    \/ SaveJson
    \/ CopyImage
    \/ PrintSummary
    \/ SaveCategoryInfo
    \/ Rerun

SpecRerun == Init /\ [][NextRerun]_vars

\* ---- vocabulary of the properties ----

Sampled == pc \in {"save", "copy", "report", "done", "crashed"}
Saved == annotations_json # <<>>
Output == annotations_json[1]
Ranked == pc \notin {"start", "rank"}
NumAnnotationsOf(c) ==
    Cardinality({i \in DOMAIN data.annotations : data.annotations[i].category_id = c})
OccurringCategories ==
    {data.annotations[i].category_id : i \in DOMAIN data.annotations} \ {EXCLUDED}
HasTopCategory(img) ==
    \E i \in DOMAIN data.annotations :
        /\ data.annotations[i].image_id = img
        /\ data.annotations[i].category_id \in Range(top_categories)
NoDuplicates(s) == \A i, j \in DOMAIN s : i # j => s[i] # s[j]

\* C1: no annotation of the returned or written dataset has category_id 90.
C1_NoExcludedCategoryInOutput ==
    /\ \A i \in DOMAIN sampled_annotations :
          sampled_annotations[i].category_id # EXCLUDED
    /\ \A k \in DOMAIN sampled_data : \A i \in DOMAIN sampled_data[k].annotations :
          sampled_data[k].annotations[i].category_id # EXCLUDED
    /\ \A k \in DOMAIN annotations_json : \A i \in DOMAIN annotations_json[k].annotations :
          annotations_json[k].annotations[i].category_id # EXCLUDED

\* a selected image carries a category-90 annotation in the input, and
\* the output has been written with some annotation of that image
C1_Witness ==
    /\ pc = "done"
    /\ \E i \in DOMAIN data.annotations :
          /\ data.annotations[i].category_id = EXCLUDED
          /\ data.annotations[i].image_id \in sampled_image_ids
          /\ \E j \in DOMAIN Output.annotations :
                Output.annotations[j].image_id = data.annotations[i].image_id

\* C2: every image_id referenced by an output annotation is the id of a
\* record of the output image list, also when input annotations reference
\* images that are not in the input image list.
C2_OutputAnnotationsReferenceOutputImages ==
    /\ \A k \in DOMAIN sampled_data : \A i \in DOMAIN sampled_data[k].annotations :
          sampled_data[k].annotations[i].image_id \in Range(sampled_data[k].images)
    /\ \A k \in DOMAIN annotations_json : \A i \in DOMAIN annotations_json[k].annotations :
          annotations_json[k].annotations[i].image_id \in Range(annotations_json[k].images)

\* the input has a non-excluded annotation of a top category on an image
\* that is not in the image list, and the output has annotations
C2_Witness ==
    /\ pc = "done"
    /\ Len(Output.annotations) > 0
    /\ \E i \in DOMAIN data.annotations :
          /\ data.annotations[i].image_id \notin Range(data.images)
          /\ data.annotations[i].category_id \in Range(top_categories)

\* C3: the draw for a top category has size min(cap, available), so at most
\* the cap and at most the pool's size, and consists of distinct images of
\* that category's pool.
C3_DrawRespectsQuota ==
    (pc = "sample" /\ cat_idx >= 1) =>
        LET pool == category_image_map[top_categories[cat_idx]]
        IN  /\ Len(sampled) <= images_per_category
            /\ Len(sampled) <= Len(pool)
            /\ Len(sampled) = Min(images_per_category, Len(pool))
            /\ NoDuplicates(sampled)
            /\ Range(sampled) \subseteq Range(pool)

\* a pool larger than a positive cap has yielded exactly cap images
C3_Witness ==
    /\ pc = "sample"
    /\ cat_idx >= 1
    /\ images_per_category >= 1
    /\ Len(category_image_map[top_categories[cat_idx]]) > images_per_category
    /\ Len(sampled) = images_per_category

\* a pool of at least two images has been drawn whole
C3_WitnessWholePool ==
    /\ pc = "sample"
    /\ cat_idx >= 1
    /\ Len(sampled) >= 2
    /\ Len(sampled) = Len(category_image_map[top_categories[cat_idx]])

\* C4: a second run on the same dataset with the same N, cap and seed
\* selects the same set of image ids as the first.
C4_SameSeedSameSelection ==
    (run = 2 /\ Sampled) => sampled_image_ids = first_selected

\* the second run has finished a selection in which a pool was larger than
\* the cap, so the draw decided which images were selected
C4_Witness ==
    /\ run = 2
    /\ pc = "done"
    /\ sampled_image_ids # {}
    /\ \E c \in DOMAIN category_image_map :
          Len(category_image_map[c]) > images_per_category

\* C5: the output annotation list is exactly the input annotations on a
\* selected image whose category is not 90, in input order, whether or not
\* the category is among the top N.
C5_OutputAnnotationsExact ==
    Saved =>
        Output.annotations =
            SelectSeq(data.annotations,
                      LAMBDA a : a.image_id \in Range(Output.images)
                                 /\ a.category_id # EXCLUDED)

\* the output retains an annotation of a category outside the top N
C5_Witness ==
    /\ pc = "done"
    /\ \E i \in DOMAIN Output.annotations :
          Output.annotations[i].category_id \notin Range(top_categories)

\* C6: in the copy loop every image handled so far is counted exactly once,
\* as copied or as missing; a missing file stops nothing, and after the
\* loop copied + missing is the number of selected images, all of which are
\* in the written image list whether their file was copied or not.
C6_CopyCountsEveryImageOnce ==
    /\ pc = "copy" => copied + missing = copy_idx
    /\ pc \in {"report", "done", "crashed"} =>
          /\ copied + missing = Len(sampled_images)
          /\ copied = Cardinality(images_output)
          /\ Output.images = sampled_images
          /\ images_output \subseteq Range(sampled_images)
    /\ pc = "crashed" => Len(sampled_images) = 0

\* a run ended normally although a selected image's file was missing; the
\* image is in annotations.json and not in the output image directory
C6_Witness ==
    /\ pc = "done"
    /\ missing > 0
    /\ copied > 0
    /\ \E img \in Range(Output.images) : img \notin images_output

\* C7: when the cap is at least the size of every top category's pool, the
\* output images are exactly the input images with an annotation of a top
\* category.
C7_AllEligibleSelectedUnderLargeCap ==
    (Saved /\ Sampled
       /\ \A c \in DOMAIN category_image_map :
             images_per_category >= Len(category_image_map[c]))
    => Output.images = SelectSeq(data.images, HasTopCategory)

\* image 1 carries a top category, image 2 carries only category 90; the
\* output holds image 1 alone
C7_Witness ==
    /\ pc = "done"
    /\ \A c \in DOMAIN category_image_map :
          images_per_category >= Len(category_image_map[c])
    /\ \E i \in DOMAIN data.annotations :
          data.annotations[i] = [image_id |-> 2, category_id |-> EXCLUDED]
    /\ \A i \in DOMAIN data.annotations :
          data.annotations[i].image_id = 2 => data.annotations[i].category_id = EXCLUDED
    /\ Output.images = <<1>>

\* two images share a top category and both are in the output
C7_WitnessShared ==
    /\ pc = "done"
    /\ \E c \in DOMAIN category_image_map : Len(category_image_map[c]) >= 2
    /\ \A c \in DOMAIN category_image_map :
          images_per_category >= Len(category_image_map[c])
    /\ Len(Output.images) >= 2

\* C8: the output's category list is the input's, unchanged; info and
\* licenses are the input's when the input has them (and the empty
\* dict / list when it has not).
C8_CategoriesPassedThrough ==
    /\ \A k \in DOMAIN sampled_data :
          /\ sampled_data[k].categories = data.categories
          /\ data.info # "absent" => sampled_data[k].info = data.info
          /\ data.licenses # "absent" => sampled_data[k].licenses = data.licenses
          /\ data.info = "absent" => sampled_data[k].info = "{}"
          /\ data.licenses = "absent" => sampled_data[k].licenses = "[]"
    /\ \A k \in DOMAIN annotations_json :
          /\ annotations_json[k].categories = data.categories
          /\ data.info # "absent" => annotations_json[k].info = data.info
          /\ data.licenses # "absent" => annotations_json[k].licenses = data.licenses

\* a written output whose category list holds category 90 and a category
\* that was not ranked, with info and licenses present in the input
C8_Witness ==
    /\ pc = "done"
    /\ EXCLUDED \in Range(Output.categories)
    /\ \E c \in Range(Output.categories) \ {EXCLUDED} : c \notin Range(top_categories)
    /\ data.info # "absent"
    /\ data.licenses # "absent"

\* C9: a run on a well-formed dataset ends normally with annotations.json
\* and category_info.txt written and every selected image handled, also
\* when no image is selected.
C9_RunEndsNormallyWithAllOutputs ==
    pc \in {"done", "crashed"} =>
        /\ pc = "done"
        /\ annotations_json # <<>>
        /\ copy_idx = Len(sampled_images)
        /\ category_info_file # <<>>

\* C10: top_categories has no 90 and no duplicate, has length
\* min(N, number of distinct non-excluded categories occurring), is ordered
\* by annotation count descending, and no category left out of it has more
\* annotations than a category in it.
C10_TopCategoriesRanked ==
    Ranked =>
        /\ EXCLUDED \notin Range(top_categories)
        /\ NoDuplicates(top_categories)
        /\ Range(top_categories) \subseteq OccurringCategories
        /\ Len(top_categories) = Min(top_n_categories, Cardinality(OccurringCategories))
        /\ \A i, j \in DOMAIN top_categories :
              i < j => NumAnnotationsOf(top_categories[i]) >= NumAnnotationsOf(top_categories[j])
        /\ \A c \in OccurringCategories \ Range(top_categories) :
              \A t \in Range(top_categories) : NumAnnotationsOf(c) <= NumAnnotationsOf(t)

\* the category that occurs first in the input has fewer annotations than
\* a later one and is left out of a non-empty ranking
C10_Witness ==
    /\ Ranked
    /\ Len(top_categories) >= 1
    /\ Len(data.annotations) >= 1
    /\ data.annotations[1].category_id # EXCLUDED
    /\ data.annotations[1].category_id \notin Range(top_categories)
    /\ NumAnnotationsOf(data.annotations[1].category_id)
          < NumAnnotationsOf(top_categories[1])

\* both categories are ranked, the more frequent one first although it
\* occurs later in the input
C10_WitnessReordered ==
    /\ Ranked
    /\ Len(top_categories) = 2
    /\ data.annotations[1].category_id = top_categories[2]
    /\ NumAnnotationsOf(top_categories[1]) > NumAnnotationsOf(top_categories[2])

====
